---- MODULE Spec2Model ----
(***************************************************************************)
(* Exam authoring and the exam-attempt lifecycle of backend/server.py:     *)
(* create_exam, update_exam, publish_exam, archive_exam, start_exam,       *)
(* sync_answers and submit_exam over the exams, exam_attempts and users    *)
(* collections.  Documents are functions from field names to values, and   *)
(* a Mongo "$set" is the merge of such functions.  Every handler is one    *)
(* atomic action (each call runs to completion before the next begins).    *)
(*                                                                         *)
(* Marks are held in quarter marks (Scale units per mark), the resolution  *)
(* of the negative_marks in the source (0.25, 0.5, 0.75), so that float    *)
(* arithmetic on them is exact integer arithmetic here.                    *)
(***************************************************************************)
EXTENDS Integers, Sequences, FiniteSets, TLC

VARIABLES
    exams,         \* db.exams: the exam documents, by id
    attempts,      \* db.exam_attempts: the attempt documents, by id
    xp,            \* db.users: each user's xp_points
    audit_logs,    \* db.audit_logs: the number of entries
    started_with,  \* history: the question_ids of each attempt's exam when it started
    graded_with,   \* history: the question ids each attempt was graded against
    requests,      \* the start_exam calls run as two steps: what each read, and the attempt it inserted
    now,           \* datetime.now(timezone.utc), in seconds since the store was seeded
    in_flight      \* the sync_answers and submit_exam calls run as two steps: what each passed and wrote

vars == <<exams, attempts, xp, audit_logs, started_with, graded_with, requests, now,
          in_flight>>

----------------------------------------------------------------------------
(* Bounds of the model *)

(* Capacities of the exams, exam_attempts and audit_logs collections; every
   create, update, publish, start and submit inserts one audit_logs entry *)
MaxExams == 2

MaxAttempts == 2

MaxAudit == 4

(* The start_exam calls that may run as two steps *)
MaxRequests == 2

(* The records one exam may grow into by forks *)
MaxVersions == 3

(* The sync_answers and submit_exam calls that may run as two steps *)
MaxInFlight == 2

(* Quarter marks per mark *)
Scale == 4

(* The clock stops after 25 hours, and moves by half hours or by a day *)
MaxNow == 90000

TickSteps == {1800, 86400}

----------------------------------------------------------------------------
(* Enumerations *)

ExamStatus == {"DRAFT", "PUBLISHED", "ACTIVE", "COMPLETED", "ARCHIVED"}

AttemptStatus == {"IN_PROGRESS", "SUBMITTED", "EVALUATED", "EXPIRED"}

Users == {"u1", "u2"}

(* The tenant with domain "default", which owns the seeded data and whose
   staff author the exams *)
DefaultTenant == "default"

(* register: user_data.tenant_id or the default tenant *)
TenantOf == [u1 |-> DefaultTenant, u2 |-> "t2"]

----------------------------------------------------------------------------
(* Generic helpers *)

Max(a, b) == IF a >= b THEN a ELSE b

(* dict.update / Mongo $set: the fields of upd replace or extend those of d *)
Merge(d, upd) ==
    [k \in (DOMAIN d) \cup (DOMAIN upd) |-> IF k \in DOMAIN upd THEN upd[k] ELSE d[k]]

ToSet(s) == {s[i] : i \in DOMAIN s}

(* Python int() of the rational n/d: truncation toward zero *)
IntTrunc(n, d) == IF n >= 0 THEN n \div d ELSE -((-n) \div d)


RECURSIVE SumOver(_, _)
SumOver(S, f) ==
    IF S = {} THEN 0
    ELSE LET x == CHOOSE y \in S : TRUE IN f[x] + SumOver(S \ {x}, f)

----------------------------------------------------------------------------
(* Text: a string is a sequence of characters *)

UpperCase == <<"A", "B", "C", "D", "E", "F", "G", "I", "K", "L", "N", "P", "S">>

LowerCase == <<"a", "b", "c", "d", "e", "f", "g", "i", "k", "l", "n", "p", "s">>

CharLower(c) ==
    IF \E i \in DOMAIN UpperCase : UpperCase[i] = c
    THEN LowerCase[CHOOSE i \in DOMAIN UpperCase : UpperCase[i] = c]
    ELSE c

StrLower(s) == [i \in DOMAIN s |-> CharLower(s[i])]

RECURSIVE LStrip(_)
LStrip(s) == IF s # <<>> /\ Head(s) = " " THEN LStrip(Tail(s)) ELSE s

RECURSIVE RStrip(_)
RStrip(s) ==
    IF s # <<>> /\ s[Len(s)] = " " THEN RStrip(SubSeq(s, 1, Len(s) - 1)) ELSE s

(* A strip that trims nothing *)
StrStripNone(s) == s

StrStrip(s) == RStrip(LStrip(s))

(* An answer payload is a string or a list of strings *)
StrAns(s) == [kind |-> "str", val |-> s]

ListAns(l) == [kind |-> "list", val |-> l]

(* str(x): a string is itself; a list prints as "['a', 'c']" *)
RECURSIVE ListRepr(_)
ListRepr(l) ==
    IF l = <<>> THEN <<>>
    ELSE <<"'">> \o Head(l) \o <<"'">> \o
         (IF Len(l) > 1 THEN <<",", " ">> ELSE <<>>) \o ListRepr(Tail(l))

PyStr(a) == IF a.kind = "str" THEN a.val ELSE <<"[">> \o ListRepr(a.val) \o <<"]">>

(* set(x) if isinstance(x, list) else {x} *)
AsSet(a) == IF a.kind = "list" THEN ToSet(a.val) ELSE {a.val}

----------------------------------------------------------------------------
(* The question store: the first six questions of seed_default_data; marks
   in marks, negative_marks in quarter marks, explanations as opaque texts.
   The operations modelled only read it. *)

Questions ==
    [q1 |-> [type |-> "MCQ_SINGLE", marks |-> 1, negative_marks |-> 0,
             correct_answer |-> StrAns(<<"a">>),
             explanation |-> "e1"],
     q2 |-> [type |-> "TRUE_FALSE", marks |-> 1, negative_marks |-> 0,
             correct_answer |-> StrAns(<<"f", "a", "l", "s", "e">>),
             explanation |-> "e2"],
     q3 |-> [type |-> "MCQ_MULTI", marks |-> 2, negative_marks |-> 2,
             correct_answer |-> ListAns(<<<<"a">>, <<"c">>, <<"d">>>>),
             explanation |-> "e3"],
     q4 |-> [type |-> "FILL_BLANK", marks |-> 1, negative_marks |-> 0,
             correct_answer |-> StrAns(<<"S", "p", "e", "a", "k", "i", "n", "g">>),
             explanation |-> "e4"],
     q5 |-> [type |-> "CASE_BASED", marks |-> 3, negative_marks |-> 3,
             correct_answer |-> StrAns(<<"b">>),
             explanation |-> "e5"],
     q6 |-> [type |-> "MCQ_SINGLE", marks |-> 1, negative_marks |-> 1,
             correct_answer |-> StrAns(<<"a">>),
             explanation |-> "e6"]]

QuestionIds == DOMAIN Questions

(* A lookup that returns every stored question *)
FindQuestionsAll(ids) == QuestionIds

(* db.questions.find({"_id": {"$in": ids}}): the stored questions among ids, each once *)
FindQuestions(ids) == ToSet(ids) \cap QuestionIds

----------------------------------------------------------------------------
(* Inputs of the calls *)

(* question_ids lists a caller may send *)
QidChoices == {<<>>, <<"q6">>, <<"q5", "q6">>}

(* passing_marks, negative_marking, show_result_immediately and
   duration_minutes (default 60, at least 5) of a new exam *)
ExamConfigs ==
    { [passing_marks |-> 0, negative_marking |-> TRUE, show_result_immediately |-> FALSE,
       duration_minutes |-> 60],
      [passing_marks |-> 1, negative_marking |-> FALSE, show_result_immediately |-> TRUE,
       duration_minutes |-> 5] }

(* ExamCreate.total_marks default, used when the questions' marks sum to 0 *)
DefaultTotalMarks == 100

(* ExamUpdate.model_dump() without its None fields: the patches a caller may
   send, carrying status, question_ids or both *)
Patches ==
    {[status |-> st] : st \in ExamStatus \ {"ARCHIVED"}}
    \cup {[question_ids |-> q] : q \in QidChoices}
    \cup {[status |-> "PUBLISHED", question_ids |-> <<"q6">>]}

Ans(q, a) == [question_id |-> q, answer |-> a]

A1 == Ans("q1", StrAns(<<"a">>))

A2 == Ans("q2", StrAns(<<"f", "a", "l", "s", "e">>))

A4 == Ans("q4", StrAns(<<" ", "s", "p", "e", "a", "k", "i", "n", "g", " ">>))

A5 == Ans("q5", StrAns(<<"B">>))

A6 == Ans("q6", StrAns(<<"A">>))

W3 == Ans("q3", ListAns(<<<<"a">>>>))

W5 == Ans("q5", StrAns(<<"a">>))

W6 == Ans("q6", StrAns(<<"b">>))

(* answers lists a caller may send to submit *)
Submissions ==
    { <<A1, A2, A4, A5>>,
      <<A1, W3>>,
      <<W6>>,
      <<W5, A6>>,
      <<A6, A6>> }

(* answers lists a caller may send to sync *)
SyncChoices == { <<A1, W3>> }

(* the ids a caller may name: those stored and one that is absent *)
ExamIds == 1..(Len(exams) + 1)

AttemptIds == 1..(Len(attempts) + 1)

(* log_audit: db.audit_logs.insert_one *)
LogAudit == audit_logs < MaxAudit /\ audit_logs' = audit_logs + 1

----------------------------------------------------------------------------
(* Exam authoring *)

(* sum(q.get("marks", 1) for q in questions) over the questions found *)
TotalMarksOf(ids) == SumOver(FindQuestions(ids), [q \in QuestionIds |-> Questions[q].marks])

ExamExists(exam_id) == exam_id \in DOMAIN exams

(* A call that raises HTTPException before any write *)
Refused == UNCHANGED vars

CreateExam(question_ids, config) ==
    /\ Len(exams) < MaxExams
    /\ LogAudit
    /\ LET total_marks == IF question_ids # <<>> THEN TotalMarksOf(question_ids) ELSE 0
           exam == [question_ids |-> question_ids,
                    passing_marks |-> config.passing_marks,
                    negative_marking |-> config.negative_marking,
                    show_result_immediately |-> config.show_result_immediately,
                    duration_minutes |-> config.duration_minutes,
                    total_marks |-> IF total_marks # 0 THEN total_marks ELSE DefaultTotalMarks,
                    tenant_id |-> DefaultTenant,
                    status |-> "DRAFT",
                    version |-> 1]
       IN exams' = Append(exams, exam)
    /\ UNCHANGED <<attempts, xp, started_with, graded_with, requests, now, in_flight>>

(* An update that always writes in place *)
ForksNever(exam, update_data) == FALSE

(* exam["status"] != DRAFT and "question_ids" in update_data *)
ForksNewVersion(exam, update_data) ==
    exam.status # "DRAFT" /\ "question_ids" \in DOMAIN update_data

(* What update_exam answers: 404, or the record written (the clone's on a fork) *)
UpdateExamResponse(exam_id, update_data) ==
    IF ~ExamExists(exam_id) THEN [code |-> 404]
    ELSE IF ForksNewVersion(exams[exam_id], update_data)
    THEN [code |-> 200, id |-> Len(exams) + 1]
    ELSE [code |-> 200, id |-> exam_id]

(* update_exam on an exams collection that holds up to capacity documents *)
UpdateExamUpTo(capacity, exam_id, update_data) ==
    IF ~ExamExists(exam_id) THEN Refused
    ELSE LET exam == exams[exam_id] IN
         IF ForksNewVersion(exam, update_data)
         THEN /\ Len(exams) < capacity
              /\ LogAudit
              /\ LET new_exam == Merge(Merge(exam, update_data),
                                       [version |-> exam.version + 1, status |-> "DRAFT"])
                 IN exams' = Append(exams, new_exam)
              /\ UNCHANGED <<attempts, xp, started_with, graded_with, requests, now, in_flight>>
         ELSE /\ LET set == IF "question_ids" \in DOMAIN update_data
                            THEN Merge(update_data,
                                       [total_marks |-> TotalMarksOf(update_data.question_ids)])
                            ELSE update_data
                 IN exams' = [exams EXCEPT ![exam_id] = Merge(exam, set)]
              /\ LogAudit
              /\ UNCHANGED <<attempts, xp, started_with, graded_with, requests, now, in_flight>>

UpdateExam(exam_id, update_data) == UpdateExamUpTo(MaxExams, exam_id, update_data)

(* A publish without the question count test *)
CanPublishAlways(exam) == TRUE

(* len(exam.get("question_ids", [])) == 0 refuses the publish *)
CanPublish(exam) == Len(exam.question_ids) # 0

PublishExamResponse(exam_id) ==
    IF ~ExamExists(exam_id) THEN [code |-> 404]
    ELSE IF ~CanPublish(exams[exam_id]) THEN [code |-> 400]
    ELSE [code |-> 200]

PublishExam(exam_id) ==
    IF ~ExamExists(exam_id) \/ ~CanPublish(exams[exam_id]) THEN Refused
    ELSE /\ exams' = [exams EXCEPT ![exam_id] = Merge(@, [status |-> "PUBLISHED"])]
         /\ LogAudit
         /\ UNCHANGED <<attempts, xp, started_with, graded_with, requests, now, in_flight>>

ArchiveExam(exam_id) ==
    IF ~ExamExists(exam_id) THEN Refused
    ELSE /\ exams' = [exams EXCEPT ![exam_id] = Merge(@, [status |-> "ARCHIVED"])]
         /\ UNCHANGED <<attempts, xp, audit_logs, started_with, graded_with, requests, now, in_flight>>

----------------------------------------------------------------------------
(* Exam attempts *)

(* A start without the status test *)
StartableAlways(exam) == TRUE

(* exam["status"] in [PUBLISHED, ACTIVE], else start_exam answers 400 *)
Startable(exam) == exam.status \in {"PUBLISHED", "ACTIVE"}

(* A lookup that never finds an open attempt *)
ExistingAttemptsNone(user, exam_id) == {}

(* find_one({exam_id, user_id, status: IN_PROGRESS}): the ids of the matches *)
ExistingAttempts(user, exam_id) ==
    {a \in DOMAIN attempts : /\ attempts[a].exam_id = exam_id
                             /\ attempts[a].user_id = user
                             /\ attempts[a].status = "IN_PROGRESS"}

(* find_one returns the first match in insertion order *)
Existing(user, exam_id) ==
    CHOOSE a \in ExistingAttempts(user, exam_id) :
        \A b \in ExistingAttempts(user, exam_id) : a <= b

(* A projection that returns the stored document whole *)
ProjectQuestionAll(question) == question

(* The projection {"correct_answer": 0, "explanation": 0} of a question *)
ProjectQuestion(question) ==
    [f \in DOMAIN question \ {"correct_answer", "explanation"} |-> question[f]]

(* db.questions.find({"_id": {"$in": ids}}, projection) over a question store:
   the documents found, as a set (their order is presentation only, and is
   shuffled for a new attempt) *)
StartQuestions(store, ids) ==
    {Merge(ProjectQuestion(store[q]), [id |-> q]) : q \in ToSet(ids) \cap DOMAIN store}

(* timedelta.seconds: the seconds of a non-negative interval within its last
   day, the whole days being kept apart in timedelta.days *)
SecondsPerDay == 24 * 60 * 60

TimedeltaSeconds(interval) == interval % SecondsPerDay

(* time_remaining of a resumed attempt:
   max(0, exam["duration_minutes"] * 60 - (now - started_at).seconds) *)
TimeRemaining(exam, attempt) ==
    Max(0, exam.duration_minutes * 60 - TimedeltaSeconds(now - attempt.started_at))

(* What start_exam answers: 404, 400, the resumed attempt or the new one *)
StartExamResponse(user, exam_id) ==
    IF ~ExamExists(exam_id) THEN [code |-> 404]
    ELSE IF ~Startable(exams[exam_id]) THEN [code |-> 400]
    ELSE IF ExistingAttempts(user, exam_id) # {}
    THEN [code |-> 200, attempt_id |-> Existing(user, exam_id), resumed |-> TRUE,
          questions |-> StartQuestions(Questions, exams[exam_id].question_ids),
          time_remaining_seconds |->
              TimeRemaining(exams[exam_id], attempts[Existing(user, exam_id)]),
          saved_answers |-> attempts[Existing(user, exam_id)].answers]
    ELSE [code |-> 200, attempt_id |-> Len(attempts) + 1, resumed |-> FALSE,
          questions |-> StartQuestions(Questions, exams[exam_id].question_ids),
          time_remaining_seconds |-> exams[exam_id].duration_minutes * 60,
          saved_answers |-> <<>>]

StartExam(user, exam_id) ==
    IF ~ExamExists(exam_id) \/ ~Startable(exams[exam_id]) THEN Refused
    ELSE IF ExistingAttempts(user, exam_id) # {}
    THEN (* resume: nothing is written *)
         UNCHANGED vars
    ELSE /\ Len(attempts) < MaxAttempts
         /\ LogAudit
         /\ LET attempt == [exam_id |-> exam_id,
                            exam_version |-> exams[exam_id].version,
                            user_id |-> user,
                            tenant_id |-> TenantOf[user],
                            status |-> "IN_PROGRESS",
                            started_at |-> now,
                            answers |-> <<>>]
            IN attempts' = Append(attempts, attempt)
         /\ started_with' = Append(started_with, exams[exam_id].question_ids)
         /\ graded_with' = Append(graded_with, {})
         /\ UNCHANGED <<exams, xp, requests, now, in_flight>>

(* start_exam up to its find_one calls, when other calls may run before its
   insert_one: the exam and the existing attempt it read.  A call that finds
   an IN_PROGRESS attempt returns it at once. *)
StartLookup(user, exam_id) ==
    IF ~ExamExists(exam_id) \/ ~Startable(exams[exam_id]) THEN Refused
    ELSE /\ Len(requests) < MaxRequests
         /\ LET found == ExistingAttempts(user, exam_id) # {}
            IN requests' = Append(requests,
                   [user |-> user,
                    exam_id |-> exam_id,
                    exam |-> exams[exam_id],
                    looked_at |-> Len(attempts),
                    found |-> found,
                    attempt_id |-> IF found THEN Existing(user, exam_id) ELSE 0])
         /\ UNCHANGED <<exams, attempts, xp, audit_logs, started_with, graded_with, now, in_flight>>

(* An insert that looks for an IN_PROGRESS attempt again, and resumes it *)
StartInsertRechecked(r) ==
    /\ ~requests[r].found
    /\ requests[r].attempt_id = 0
    /\ IF ExistingAttempts(requests[r].user, requests[r].exam_id) # {}
       THEN /\ requests' = [requests EXCEPT
                              ![r].attempt_id = Existing(requests[r].user, requests[r].exam_id)]
            /\ UNCHANGED <<exams, attempts, xp, audit_logs, started_with, graded_with, now, in_flight>>
       ELSE /\ Len(attempts) < MaxAttempts
            /\ LogAudit
            /\ attempts' = Append(attempts, [exam_id |-> requests[r].exam_id,
                                             exam_version |-> requests[r].exam.version,
                                             user_id |-> requests[r].user,
                                             tenant_id |-> TenantOf[requests[r].user],
                                             status |-> "IN_PROGRESS",
                                             started_at |-> now,
                                             answers |-> <<>>])
            /\ requests' = [requests EXCEPT ![r].attempt_id = Len(attempts) + 1]
            /\ started_with' = Append(started_with, requests[r].exam.question_ids)
            /\ graded_with' = Append(graded_with, {})
            /\ UNCHANGED <<exams, xp, now, in_flight>>

(* The rest of that start_exam call: insert_one of the new attempt, from what
   the call read before *)
StartInsert(r) ==
    /\ ~requests[r].found
    /\ requests[r].attempt_id = 0
    /\ Len(attempts) < MaxAttempts
    /\ LogAudit
    /\ LET attempt == [exam_id |-> requests[r].exam_id,
                       exam_version |-> requests[r].exam.version,
                       user_id |-> requests[r].user,
                       tenant_id |-> TenantOf[requests[r].user],
                       status |-> "IN_PROGRESS",
                       started_at |-> now,
                       answers |-> <<>>]
       IN attempts' = Append(attempts, attempt)
    /\ requests' = [requests EXCEPT ![r].attempt_id = Len(attempts) + 1]
    /\ started_with' = Append(started_with, requests[r].exam.question_ids)
    /\ graded_with' = Append(graded_with, {})
    /\ UNCHANGED <<exams, xp, now, in_flight>>

AttemptExists(attempt_id) == attempt_id \in DOMAIN attempts

(* A status test that lets every attempt through *)
AttemptOpenAlways(attempt) == TRUE

(* attempt["status"] != IN_PROGRESS refuses sync and submit *)
AttemptOpen(attempt) == attempt.status = "IN_PROGRESS"

SyncAnswersResponse(user, attempt_id, answers) ==
    IF ~AttemptExists(attempt_id) \/ attempts[attempt_id].user_id # user THEN [code |-> 404]
    ELSE IF ~AttemptOpen(attempts[attempt_id]) THEN [code |-> 400]
    ELSE [code |-> 200, synced_count |-> Len(answers)]

SyncAnswers(user, attempt_id, answers) ==
    IF \/ ~AttemptExists(attempt_id)
       \/ attempts[attempt_id].user_id # user
       \/ ~AttemptOpen(attempts[attempt_id])
    THEN Refused
    ELSE /\ attempts' = [attempts EXCEPT ![attempt_id] = Merge(@, [answers |-> answers])]
         /\ UNCHANGED <<exams, xp, audit_logs, started_with, graded_with, requests, now, in_flight>>

(* The comparison of one submitted answer with the canonical one *)
IsCorrect(question, answer) ==
    IF question.type = "MCQ_MULTI"
    THEN AsSet(question.correct_answer) = AsSet(answer)
    ELSE StrStrip(StrLower(PyStr(answer))) = StrStrip(StrLower(PyStr(question.correct_answer)))

(* One pass of the loop over submission.answers *)
EvalStep(acc, answer, keys, negative_marking) ==
    LET seen == [acc EXCEPT !.answered_ids = @ \cup {answer.question_id}] IN
    IF answer.question_id \notin keys THEN seen
    ELSE LET question == Questions[answer.question_id]
             is_correct == IsCorrect(question, answer.answer)
             penalty == IF negative_marking THEN question.negative_marks ELSE 0
         IN [seen EXCEPT
               !.score = IF is_correct THEN @ + question.marks * Scale ELSE @ - penalty,
               !.correct_count = IF is_correct THEN @ + 1 ELSE @,
               !.incorrect_count = IF is_correct THEN @ ELSE @ + 1,
               !.detailed_results =
                   Append(@, [question_id |-> answer.question_id,
                              your_answer |-> answer.answer,
                              correct_answer |-> question.correct_answer,
                              is_correct |-> is_correct,
                              marks_obtained |-> IF is_correct THEN question.marks * Scale
                                                 ELSE -penalty])]

RECURSIVE EvalLoop(_, _, _, _)
EvalLoop(acc, answers, keys, negative_marking) ==
    IF answers = <<>> THEN acc
    ELSE EvalLoop(EvalStep(acc, Head(answers), keys, negative_marking),
                  Tail(answers), keys, negative_marking)

(* A score written without the floor *)
FinalScoreRaw(score) == score

(* max(0, score): the score stored and returned *)
FinalScore(score) == Max(0, score)

(* passed = score >= exam["passing_marks"], on the running total *)
Passed(score, exam) == score >= exam.passing_marks * Scale

(* (score / total_marks) * 100 if total_marks > 0 else 0, as a fraction num/den *)
Percentage(score, exam) ==
    IF exam.total_marks > 0
    THEN [num |-> score * 100, den |-> exam.total_marks * Scale]
    ELSE [num |-> 0, den |-> 1]

(* int(score * 10) + (50 if passed else 0), on the running total *)
XpEarned(score, passed) == IntTrunc(score * 10, Scale) + (IF passed THEN 50 ELSE 0)

(* The evaluation of a submission against an exam: the running total, the
   fields submit_exam writes to the attempt, and the xp it awards *)
Evaluate(exam, answers) ==
    LET ev == EvalLoop([score |-> 0, correct_count |-> 0, incorrect_count |-> 0,
                        detailed_results |-> <<>>, answered_ids |-> {}],
                       answers, FindQuestions(exam.question_ids), exam.negative_marking)
        passed == Passed(ev.score, exam)
    IN [score |-> ev.score,
        set |-> [status |-> "EVALUATED",
                 answers |-> answers,
                 score |-> FinalScore(ev.score),
                 correct_count |-> ev.correct_count,
                 incorrect_count |-> ev.incorrect_count,
                 unanswered_count |-> Len(exam.question_ids) - Cardinality(ev.answered_ids),
                 percentage |-> Percentage(ev.score, exam),
                 passed |-> passed,
                 detailed_results |-> ev.detailed_results],
        xp_earned |-> XpEarned(ev.score, passed)]

(* A response that always carries the details *)
ShowResultsAlways(exam) == TRUE

(* exam.get("show_result_immediately", True): whether the response carries
   detailed_results *)
ShowResults(exam) == exam.show_result_immediately

(* What submit_exam answers: 404, 403, 400 or the result; a response without
   details has detailed_results None, here has_details FALSE *)
SubmitExamResponse(user, attempt_id, answers) ==
    IF ~AttemptExists(attempt_id) THEN [code |-> 404]
    ELSE IF attempts[attempt_id].user_id # user THEN [code |-> 403]
    ELSE IF ~AttemptOpen(attempts[attempt_id]) THEN [code |-> 400]
    ELSE LET exam == exams[attempts[attempt_id].exam_id]
             ev == Evaluate(exam, answers)
         IN [code |-> 200,
             id |-> attempt_id,
             exam_id |-> attempts[attempt_id].exam_id,
             user_id |-> user,
             score |-> FinalScore(ev.score),
             total_marks |-> exam.total_marks,
             percentage |-> ev.set.percentage,
             passed |-> ev.set.passed,
             correct_count |-> ev.set.correct_count,
             incorrect_count |-> ev.set.incorrect_count,
             unanswered_count |-> ev.set.unanswered_count,
             xp_earned |-> ev.xp_earned,
             has_details |-> ShowResults(exam),
             detailed_results |-> IF ShowResults(exam)
                                  THEN ev.set.detailed_results ELSE <<>>]

SubmitExam(user, attempt_id, answers) ==
    IF \/ ~AttemptExists(attempt_id)
       \/ attempts[attempt_id].user_id # user
       \/ ~AttemptOpen(attempts[attempt_id])
    THEN Refused
    ELSE LET exam == exams[attempts[attempt_id].exam_id]
             ev == Evaluate(exam, answers)
         IN /\ LogAudit
            /\ attempts' = [attempts EXCEPT ![attempt_id] = Merge(@, ev.set)]
            /\ xp' = [xp EXCEPT ![user] = @ + ev.xp_earned]
            /\ graded_with' = [graded_with EXCEPT ![attempt_id] =
                                  FindQuestions(exam.question_ids)]
            /\ UNCHANGED <<exams, started_with, requests, now, in_flight>>

(* What submit_exam answers when db.users.update_one raises: the exception
   leaves the handler, which answers 500 *)
SubmitExamXpFailsResponse(user, attempt_id, answers) ==
    IF SubmitExamResponse(user, attempt_id, answers).code # 200
    THEN SubmitExamResponse(user, attempt_id, answers)
    ELSE [code |-> 500]

(* submit_exam when db.users.update_one raises: the attempt is written, the
   xp, the audit entry and the result are not *)
SubmitExamXpFails(user, attempt_id, answers) ==
    IF \/ ~AttemptExists(attempt_id)
       \/ attempts[attempt_id].user_id # user
       \/ ~AttemptOpen(attempts[attempt_id])
    THEN Refused
    ELSE LET exam == exams[attempts[attempt_id].exam_id]
             ev == Evaluate(exam, answers)
         IN /\ attempts' = [attempts EXCEPT ![attempt_id] = Merge(@, ev.set)]
            /\ graded_with' = [graded_with EXCEPT ![attempt_id] =
                                  FindQuestions(exam.question_ids)]
            /\ UNCHANGED <<exams, xp, audit_logs, started_with, requests, now, in_flight>>

(* sync_answers and submit_exam when other calls may run between their
   find_one and their update_one: a call first reads the attempt and passes
   the 404, 403 and 400 tests on what it read *)
SyncCheck(user, attempt_id, answers) ==
    IF \/ ~AttemptExists(attempt_id)
       \/ attempts[attempt_id].user_id # user
       \/ ~AttemptOpen(attempts[attempt_id])
    THEN Refused
    ELSE /\ Len(in_flight) < MaxInFlight
         /\ in_flight' = Append(in_flight, [op |-> "sync", user |-> user,
                                            attempt_id |-> attempt_id,
                                            answers |-> answers,
                                            done |-> FALSE, xp_earned |-> 0])
         /\ UNCHANGED <<exams, attempts, xp, audit_logs, started_with, graded_with,
                        requests, now>>

(* The rest of that sync_answers call: update_one by _id alone *)
SyncWrite(c) ==
    /\ in_flight[c].op = "sync"
    /\ ~in_flight[c].done
    /\ attempts' = [attempts EXCEPT ![in_flight[c].attempt_id] =
                       Merge(@, [answers |-> in_flight[c].answers])]
    /\ in_flight' = [in_flight EXCEPT ![c].done = TRUE]
    /\ UNCHANGED <<exams, xp, audit_logs, started_with, graded_with, requests, now>>

SubmitCheck(user, attempt_id, answers) ==
    IF \/ ~AttemptExists(attempt_id)
       \/ attempts[attempt_id].user_id # user
       \/ ~AttemptOpen(attempts[attempt_id])
    THEN Refused
    ELSE /\ Len(in_flight) < MaxInFlight
         /\ in_flight' = Append(in_flight, [op |-> "submit", user |-> user,
                                            attempt_id |-> attempt_id,
                                            answers |-> answers,
                                            done |-> FALSE, xp_earned |-> 0])
         /\ UNCHANGED <<exams, attempts, xp, audit_logs, started_with, graded_with,
                        requests, now>>

(* The rest of that submit_exam call: the evaluation, update_one of the
   attempt by _id alone, the $inc of xp_points and the audit entry *)
SubmitWrite(c) ==
    /\ in_flight[c].op = "submit"
    /\ ~in_flight[c].done
    /\ LET attempt_id == in_flight[c].attempt_id
           exam == exams[attempts[attempt_id].exam_id]
           ev == Evaluate(exam, in_flight[c].answers)
       IN /\ LogAudit
          /\ attempts' = [attempts EXCEPT ![attempt_id] = Merge(@, ev.set)]
          /\ xp' = [xp EXCEPT ![in_flight[c].user] = @ + ev.xp_earned]
          /\ graded_with' = [graded_with EXCEPT ![attempt_id] =
                                FindQuestions(exam.question_ids)]
          /\ in_flight' = [in_flight EXCEPT ![c].done = TRUE,
                                            ![c].xp_earned = ev.xp_earned]
    /\ UNCHANGED <<exams, started_with, requests, now>>

----------------------------------------------------------------------------
(* Role-based access *)

UserRole == {"STUDENT", "TEACHER", "MANAGER", "ADMIN"}

(* A role checker that lets every caller through *)
RequireRolesAny(allowed_roles, role) == TRUE

(* require_roles: current_user["role"] in allowed_roles, else 403 *)
RequireRoles(allowed_roles, role) == role \in allowed_roles

(* The allowed_roles each guarded route passes to require_roles *)
AllowedRoles ==
    [get_users |-> {"ADMIN", "MANAGER"},
     get_questions |-> {"TEACHER", "MANAGER", "ADMIN"},
     create_exam |-> {"TEACHER", "MANAGER", "ADMIN"},
     update_exam |-> {"TEACHER", "MANAGER", "ADMIN"},
     publish_exam |-> {"MANAGER", "ADMIN"},
     archive_exam |-> {"MANAGER", "ADMIN"}]

GuardedRoutes == DOMAIN AllowedRoles

(* What the dependency answers before the handler runs: 403, or 200 when the
   handler is entered *)
RoleCheckerResponse(route, role) ==
    IF RequireRoles(AllowedRoles[route], role) THEN [code |-> 200] ELSE [code |-> 403]

(* get_users, get_questions: reads, which write nothing whoever calls *)
ListAs(route, role) ==
    /\ route \in {"get_users", "get_questions"}
    /\ IF RequireRoles(AllowedRoles[route], role) THEN UNCHANGED vars ELSE Refused

CreateExamAs(role, question_ids, config) ==
    IF RequireRoles(AllowedRoles.create_exam, role)
    THEN CreateExam(question_ids, config) ELSE Refused

UpdateExamAs(role, exam_id, update_data) ==
    IF RequireRoles(AllowedRoles.update_exam, role)
    THEN UpdateExam(exam_id, update_data) ELSE Refused

PublishExamAs(role, exam_id) ==
    IF RequireRoles(AllowedRoles.publish_exam, role)
    THEN PublishExam(exam_id) ELSE Refused

ArchiveExamAs(role, exam_id) ==
    IF RequireRoles(AllowedRoles.archive_exam, role)
    THEN ArchiveExam(exam_id) ELSE Refused

----------------------------------------------------------------------------
(* The specification *)

(* The sample exam seed_default_data inserts: published, on the first five
   questions *)
SeedExam ==
    [question_ids |-> <<"q1", "q2", "q3", "q4", "q5">>,
     passing_marks |-> 6,
     negative_marking |-> TRUE,
     show_result_immediately |-> TRUE,
     duration_minutes |-> 45,
     total_marks |-> 10,
     tenant_id |-> DefaultTenant,
     status |-> "PUBLISHED",
     version |-> 1]

(* The seeded store, with the users registered (xp_points 0) *)
Init ==
    /\ exams = <<SeedExam>>
    /\ attempts = <<>>
    /\ xp = [u \in Users |-> 0]
    /\ audit_logs = 0
    /\ started_with = <<>>
    /\ graded_with = <<>>
    /\ requests = <<>>
    /\ now = 0
    /\ in_flight = <<>>

Next ==
    \/ \E q \in QidChoices, c \in ExamConfigs : CreateExam(q, c)
    \/ \E e \in ExamIds, u \in Patches : UpdateExam(e, u)
    \/ \E e \in ExamIds : PublishExam(e)
    \/ \E e \in ExamIds : ArchiveExam(e)
    \/ \E u \in Users, e \in ExamIds : StartExam(u, e)
    \/ \E u \in Users, a \in AttemptIds, s \in SyncChoices : SyncAnswers(u, a, s)
    \/ \E u \in Users, a \in AttemptIds, s \in Submissions : SubmitExam(u, a, s)

Spec == Init /\ [][Next]_vars

(* The attempts on the seeded exam alone *)
NextAttempts ==
    \/ \E u \in Users, e \in ExamIds : StartExam(u, e)
    \/ \E u \in Users, a \in AttemptIds, s \in SyncChoices : SyncAnswers(u, a, s)
    \/ \E u \in Users, a \in AttemptIds, s \in Submissions : SubmitExam(u, a, s)

SpecAttempts == Init /\ [][NextAttempts]_vars

(* The clock moves on between calls *)
Tick(seconds) ==
    /\ now + seconds <= MaxNow
    /\ now' = now + seconds
    /\ UNCHANGED <<exams, attempts, xp, audit_logs, started_with, graded_with, requests, in_flight>>

(* Attempts started and resumed as time passes *)
NextClock ==
    \/ \E u \in Users, e \in ExamIds : StartExam(u, e)
    \/ \E seconds \in TickSteps : Tick(seconds)

SpecClock == Init /\ [][NextClock]_vars

(* Attempts when sync_answers and submit_exam calls interleave between
   their status test and their writes *)
NextInterleaved ==
    \/ \E u \in Users, e \in ExamIds : StartExam(u, e)
    \/ \E u \in Users, a \in AttemptIds, s \in SyncChoices : SyncCheck(u, a, s)
    \/ \E c \in DOMAIN in_flight : SyncWrite(c)
    \/ \E u \in Users, a \in AttemptIds, s \in Submissions : SubmitCheck(u, a, s)
    \/ \E c \in DOMAIN in_flight : SubmitWrite(c)

SpecInterleaved == Init /\ [][NextInterleaved]_vars

(* The seeded exam under updates alone: every record descends from it *)
NextVersions ==
    \E e \in ExamIds, u \in Patches : UpdateExamUpTo(MaxVersions, e, u)

SpecVersions == Init /\ [][NextVersions]_vars

(* Attempts when start_exam calls interleave between lookup and insert *)
NextRace ==
    \/ \E u \in Users, e \in ExamIds : StartLookup(u, e)
    \/ \E r \in DOMAIN requests : StartInsert(r)
    \/ \E u \in Users, a \in AttemptIds, s \in SyncChoices : SyncAnswers(u, a, s)
    \/ \E u \in Users, a \in AttemptIds, s \in Submissions : SubmitExam(u, a, s)

SpecRace == Init /\ [][NextRace]_vars

(* Attempts when the xp write of a submit may fail *)
NextFaults ==
    \/ \E u \in Users, e \in ExamIds : StartExam(u, e)
    \/ \E u \in Users, a \in AttemptIds, s \in SyncChoices : SyncAnswers(u, a, s)
    \/ \E u \in Users, a \in AttemptIds, s \in Submissions : SubmitExam(u, a, s)
    \/ \E u \in Users, a \in AttemptIds, s \in Submissions : SubmitExamXpFails(u, a, s)

SpecFaults == Init /\ [][NextFaults]_vars

(* The guarded routes, called under every role *)
NextRoles ==
    \/ \E role \in UserRole, route \in GuardedRoutes : ListAs(route, role)
    \/ \E role \in UserRole, q \in QidChoices, c \in ExamConfigs : CreateExamAs(role, q, c)
    \/ \E role \in UserRole, e \in ExamIds, u \in Patches : UpdateExamAs(role, e, u)
    \/ \E role \in UserRole, e \in ExamIds : PublishExamAs(role, e)
    \/ \E role \in UserRole, e \in ExamIds : ArchiveExamAs(role, e)

SpecRoles == Init /\ [][NextRoles]_vars

----------------------------------------------------------------------------
(* Properties *)

(* The IN_PROGRESS attempts of a (user, exam) pair, read off the store *)
InProgressOf(user, exam_id) ==
    {a \in DOMAIN attempts : /\ attempts[a].user_id = user
                             /\ attempts[a].exam_id = exam_id
                             /\ attempts[a].status = "IN_PROGRESS"}

Evaluated(a) == attempts[a].status = "EVALUATED"

Owner(a) == attempts[a].user_id

RECURSIVE SumMarksObtained(_)
SumMarksObtained(results) ==
    IF results = <<>> THEN 0
    ELSE Head(results).marks_obtained + SumMarksObtained(Tail(results))

(* C1: under sequential Start, Sync and Submit calls (and any exam authoring
   calls between them), no (user, exam) pair ever has two attempts that are
   both IN_PROGRESS. *)
AtMostOneInProgress ==
    \A u \in Users, e \in DOMAIN exams : Cardinality(InProgressOf(u, e)) <= 1

(* A pair that was started, submitted and started again: one evaluated and
   one open attempt *)
RestartedAfterSubmit ==
    \E a, b \in DOMAIN attempts :
        /\ Owner(a) = Owner(b)
        /\ attempts[a].exam_id = attempts[b].exam_id
        /\ Evaluated(a)
        /\ attempts[b].status = "IN_PROGRESS"

(* C2: once an attempt has left IN_PROGRESS, every sync and every submit of it
   by its owner is answered 400 (AlreadySubmitted), and no step changes any of
   its stored fields. *)
ClosedAttemptImmutable ==
    /\ [](\A a \in DOMAIN attempts :
            attempts[a].status # "IN_PROGRESS" =>
                /\ \A s \in SyncChoices : SyncAnswersResponse(Owner(a), a, s).code = 400
                /\ \A s \in Submissions : SubmitExamResponse(Owner(a), a, s).code = 400)
    /\ [][\A a \in DOMAIN attempts :
            attempts[a].status # "IN_PROGRESS" =>
                a \in DOMAIN attempts' /\ attempts'[a] = attempts[a]]_vars

(* An evaluated attempt whose owner is refused a sync that would replace its
   answers *)
SyncRefusedAfterSubmit ==
    \E a \in DOMAIN attempts, s \in SyncChoices :
        /\ Evaluated(a)
        /\ attempts[a].answers # s
        /\ SyncAnswersResponse(Owner(a), a, s).code = 400

(* C3, as stated: whenever the pair has an IN_PROGRESS attempt (a Start
   succeeded and no Submit followed), Start answers with that attempt's id,
   and the Start step changes no attempt. *)
ResumeReturnsSameAttempt ==
    /\ [](\A u \in Users, e \in DOMAIN exams :
            InProgressOf(u, e) # {} =>
                /\ StartExamResponse(u, e).code = 200
                /\ InProgressOf(u, e) = {StartExamResponse(u, e).attempt_id})
    /\ [][\A u \in Users, e \in DOMAIN exams :
            (InProgressOf(u, e) # {} /\ StartExam(u, e)) => attempts' = attempts]_vars

(* C3, amended: the same, provided the exam is still PUBLISHED or ACTIVE when
   Start is called again. *)
ResumeReturnsSameAttemptWhileAvailable ==
    /\ [](\A u \in Users, e \in DOMAIN exams :
            (InProgressOf(u, e) # {} /\ exams[e].status \in {"PUBLISHED", "ACTIVE"}) =>
                /\ StartExamResponse(u, e).code = 200
                /\ InProgressOf(u, e) = {StartExamResponse(u, e).attempt_id})
    /\ [][\A u \in Users, e \in DOMAIN exams :
            (/\ InProgressOf(u, e) # {}
             /\ exams[e].status \in {"PUBLISHED", "ACTIVE"}
             /\ StartExam(u, e)) => attempts' = attempts]_vars

(* An open attempt holding synced answers, on an exam that can still be
   started: Start resumes it and hands back the saved answers *)
ResumableWithSavedAnswers ==
    \E u \in Users, e \in DOMAIN exams :
        /\ exams[e].status \in {"PUBLISHED", "ACTIVE"}
        /\ \E a \in InProgressOf(u, e) :
               /\ attempts[a].answers # <<>>
               /\ StartExamResponse(u, e).code = 200
               /\ StartExamResponse(u, e).attempt_id = a
               /\ StartExamResponse(u, e).saved_answers = attempts[a].answers

(* C4: every evaluated attempt was graded against the question ids its exam
   had when the attempt started. *)
GradedAgainstStartedVersion ==
    \A a \in DOMAIN attempts : Evaluated(a) => graded_with[a] = ToSet(started_with[a])

(* C5: an update of a non-DRAFT exam whose patch carries question_ids answers
   with a new id and inserts a new record (version + 1, DRAFT, the patched
   question_ids); it changes neither an existing exam record nor an attempt. *)
ForkLeavesOriginal ==
    /\ [](\A e \in DOMAIN exams, p \in Patches :
            (exams[e].status # "DRAFT" /\ "question_ids" \in DOMAIN p) =>
                /\ UpdateExamResponse(e, p).code = 200
                /\ UpdateExamResponse(e, p).id \notin DOMAIN exams)
    /\ [][\A e \in DOMAIN exams, p \in Patches :
            (/\ exams[e].status # "DRAFT"
             /\ "question_ids" \in DOMAIN p
             /\ UpdateExam(e, p)) =>
                /\ Len(exams') = Len(exams) + 1
                /\ UpdateExamResponse(e, p).id = Len(exams')
                /\ exams'[Len(exams')].version = exams[e].version + 1
                /\ exams'[Len(exams')].status = "DRAFT"
                /\ exams'[Len(exams')].question_ids = p.question_ids
                /\ \A i \in DOMAIN exams : exams'[i] = exams[i]
                /\ attempts' = attempts]_vars

(* A DRAFT fork, one version above a non-DRAFT original that has an attempt
   and still has its own question_ids *)
ForkedWithAttempt ==
    \E i, j \in DOMAIN exams :
        /\ i < j
        /\ exams[i].status # "DRAFT"
        /\ exams[j].status = "DRAFT"
        /\ exams[j].version = exams[i].version + 1
        /\ exams[j].question_ids # exams[i].question_ids
        /\ \E a \in DOMAIN attempts :
               attempts[a].exam_id = i /\ started_with[a] = exams[i].question_ids

(* C6: no exam record is PUBLISHED with an empty question_ids list. *)
NoEmptyPublishedExam ==
    \A e \in DOMAIN exams :
        ~(exams[e].status = "PUBLISHED" /\ exams[e].question_ids = <<>>)

(* C7: publishing an exam with no question ids is answered 400 (EmptyExam)
   and changes no exam; publishing one with question ids is answered 200 and
   makes it PUBLISHED, leaving the other exams alone. *)
PublishGuard ==
    /\ [](\A e \in DOMAIN exams :
            PublishExamResponse(e).code =
                (IF exams[e].question_ids = <<>> THEN 400 ELSE 200))
    /\ [][\A e \in DOMAIN exams :
            PublishExam(e) =>
                IF exams[e].question_ids = <<>>
                THEN exams' = exams
                ELSE /\ exams'[e].status = "PUBLISHED"
                     /\ \A i \in DOMAIN exams : i # e => exams'[i] = exams[i]]_vars

(* A DRAFT exam without questions, whose publish is refused, beside a created
   exam that has questions and is PUBLISHED *)
PublishRefused ==
    /\ \E e \in DOMAIN exams :
           /\ exams[e].question_ids = <<>>
           /\ exams[e].status = "DRAFT"
           /\ PublishExamResponse(e).code = 400
    /\ \E e \in DOMAIN exams :
           /\ e > 1
           /\ exams[e].question_ids # <<>>
           /\ exams[e].status = "PUBLISHED"

(* C8: the stored score of an evaluated attempt is the total of the per-answer
   marks floored at zero once, max(0, sum of marks_obtained), never negative;
   and Submit answers with the score it stores. *)
ScoreFlooredOnce ==
    /\ [](\A a \in DOMAIN attempts :
            Evaluated(a) =>
                /\ attempts[a].score >= 0
                /\ attempts[a].score =
                       Max(0, SumMarksObtained(attempts[a].detailed_results)))
    /\ [][\A a \in DOMAIN attempts, s \in Submissions :
            (/\ attempts[a].status = "IN_PROGRESS"
             /\ attempts'[a].status = "EVALUATED"
             /\ SubmitExam(Owner(a), a, s)) =>
                attempts'[a].score = SubmitExamResponse(Owner(a), a, s).score]_vars

(* An evaluated attempt whose total was negative, and one whose positive total
   includes a penalty *)
NegativeTotalFloored ==
    /\ \E a \in DOMAIN attempts :
           /\ Evaluated(a)
           /\ SumMarksObtained(attempts[a].detailed_results) < 0
           /\ attempts[a].score = 0
    /\ \E a \in DOMAIN attempts :
           /\ Evaluated(a)
           /\ attempts[a].score > 0
           /\ \E i \in DOMAIN attempts[a].detailed_results :
                  attempts[a].detailed_results[i].marks_obtained < 0

(* C9: the passed flag of an evaluated attempt is (stored score >= the exam's
   passing_marks). *)
PassedOnStoredScore ==
    \A a \in DOMAIN attempts :
        Evaluated(a) =>
            attempts[a].passed =
                (attempts[a].score >= exams[attempts[a].exam_id].passing_marks * Scale)

(* The xp a submission earns according to C10, from the stored score *)
ClaimedXp(a) ==
    IntTrunc(attempts[a].score * 10, Scale) + (IF attempts[a].passed THEN 50 ELSE 0)

(* C10: each user's xp balance is the sum, over the user's evaluated attempts,
   of stored score * 10 + (50 if passed else 0). *)
XpFromStoredScore ==
    \A u \in Users :
        xp[u] = SumOver({a \in DOMAIN attempts : Evaluated(a) /\ Owner(a) = u},
                        [a \in DOMAIN attempts |-> ClaimedXp(a)])

(* C11: the percentage a Submit step stores is (stored score / total_marks)
   * 100 when the exam's total_marks > 0 and 0 otherwise. *)
PercentageFromStoredScore ==
    [][\A a \in DOMAIN attempts, s \in Submissions :
        (/\ attempts[a].status = "IN_PROGRESS"
         /\ attempts'[a].status = "EVALUATED"
         /\ SubmitExam(Owner(a), a, s)) =>
            LET total_marks == exams[attempts[a].exam_id].total_marks
                percentage == attempts'[a].percentage
            IN IF total_marks > 0
               THEN percentage.num * (total_marks * Scale) =
                        attempts'[a].score * 100 * percentage.den
               ELSE percentage.num = 0]_vars

(* C12: the unanswered_count a Submit step stores is the number of the exam's
   question ids that no submitted answer refers to. *)
UnansweredAreUntouched ==
    [][\A a \in DOMAIN attempts, s \in Submissions :
        (/\ attempts[a].status = "IN_PROGRESS"
         /\ attempts'[a].status = "EVALUATED"
         /\ SubmitExam(Owner(a), a, s)) =>
            attempts'[a].unanswered_count =
                Cardinality({q \in ToSet(exams[attempts[a].exam_id].question_ids) :
                                \A i \in DOMAIN s : s[i].question_id # q})]_vars

(* Question stores that differ from Questions only in the answer key: other
   correct answers, other explanations, or both *)
RekeyedStores ==
    { [q \in QuestionIds |-> Merge(Questions[q], rekey)] :
        rekey \in { [correct_answer |-> StrAns(<<"d">>)],
                    [explanation |-> "other"],
                    [correct_answer |-> ListAns(<<<<"b">>>>), explanation |-> "other"] } }

(* C13: whenever Start answers with questions, for a new attempt or a resume,
   no returned question has a correct_answer or an explanation field, and the
   questions returned are the same over every store that differs only in the
   answer key. *)
StartHidesAnswerKey ==
    \A u \in Users, e \in DOMAIN exams :
        StartExamResponse(u, e).code = 200 =>
            /\ \A q \in StartExamResponse(u, e).questions :
                   /\ "correct_answer" \notin DOMAIN q
                   /\ "explanation" \notin DOMAIN q
            /\ \A store \in RekeyedStores :
                   StartQuestions(store, exams[e].question_ids) =
                       StartExamResponse(u, e).questions

(* One user about to resume and another about to start the same exam, each
   handed its questions *)
QuestionsHandedOut ==
    \E u, v \in Users, e \in DOMAIN exams :
        /\ StartExamResponse(u, e).code = 200
        /\ StartExamResponse(u, e).resumed
        /\ StartExamResponse(u, e).questions # {}
        /\ StartExamResponse(v, e).code = 200
        /\ ~StartExamResponse(v, e).resumed
        /\ StartExamResponse(v, e).questions # {}

(* C14: Start answers 404 for an absent exam and 400 for an exam that is not
   PUBLISHED or ACTIVE, and such a call neither creates nor changes an
   attempt. *)
StartRefusals ==
    /\ [](\A u \in Users, e \in ExamIds :
            /\ e \notin DOMAIN exams => StartExamResponse(u, e).code = 404
            /\ (e \in DOMAIN exams /\ exams[e].status \in {"DRAFT", "COMPLETED", "ARCHIVED"}) =>
                   StartExamResponse(u, e).code = 400)
    /\ [][\A u \in Users, e \in ExamIds :
            (/\ e \in DOMAIN exams => exams[e].status \in {"DRAFT", "COMPLETED", "ARCHIVED"}
             /\ StartExam(u, e)) => attempts' = attempts]_vars

(* An archived exam on which a user still has an open attempt: Start is
   refused with 400, and with 404 for an id that is not stored *)
StartRefusedOnArchived ==
    \E u \in Users, e \in DOMAIN exams :
        /\ exams[e].status = "ARCHIVED"
        /\ InProgressOf(u, e) # {}
        /\ StartExamResponse(u, e).code = 400
        /\ StartExamResponse(u, Len(exams) + 1).code = 404

(* C15: Submit answers 404 for an absent attempt, 403 for another user's
   attempt and 400 for the caller's own attempt that is not IN_PROGRESS, and
   such a call changes no attempt and no xp balance. *)
SubmitRefusals ==
    /\ [](\A u \in Users, a \in AttemptIds, s \in Submissions :
            /\ a \notin DOMAIN attempts => SubmitExamResponse(u, a, s).code = 404
            /\ (a \in DOMAIN attempts /\ Owner(a) # u) =>
                   SubmitExamResponse(u, a, s).code = 403
            /\ (a \in DOMAIN attempts /\ Owner(a) = u /\ attempts[a].status # "IN_PROGRESS") =>
                   SubmitExamResponse(u, a, s).code = 400)
    /\ [][\A u \in Users, a \in AttemptIds, s \in Submissions :
            (/\ a \in DOMAIN attempts =>
                    (Owner(a) # u \/ attempts[a].status # "IN_PROGRESS")
             /\ SubmitExam(u, a, s)) => (attempts' = attempts /\ xp' = xp)]_vars

(* An evaluated attempt whose owner is answered 400 and whose non-owner is
   answered 403, beside an open attempt of the other user, answered 403 too *)
SubmitRefusedThreeWays ==
    \E a, b \in DOMAIN attempts, u \in Users, s \in Submissions :
        /\ Evaluated(a)
        /\ attempts[b].status = "IN_PROGRESS"
        /\ Owner(a) # u
        /\ Owner(b) = u
        /\ SubmitExamResponse(Owner(a), a, s).code = 400
        /\ SubmitExamResponse(u, a, s).code = 403
        /\ SubmitExamResponse(Owner(a), b, s).code = 403
        /\ SubmitExamResponse(u, Len(attempts) + 1, s).code = 404

(* C16: Sync answers 404 for an absent attempt, 403 for another user's
   attempt and 400 for the caller's own attempt that is not IN_PROGRESS. *)
SyncRefusals ==
    \A u \in Users, a \in AttemptIds, s \in SyncChoices :
        /\ a \notin DOMAIN attempts => SyncAnswersResponse(u, a, s).code = 404
        /\ (a \in DOMAIN attempts /\ Owner(a) # u) =>
               SyncAnswersResponse(u, a, s).code = 403
        /\ (a \in DOMAIN attempts /\ Owner(a) = u /\ attempts[a].status # "IN_PROGRESS") =>
               SyncAnswersResponse(u, a, s).code = 400

(* The submitted answers that name a question of the exam and of the store *)
GradedAnswers(exam, s) ==
    {i \in DOMAIN s : s[i].question_id \in ToSet(exam.question_ids) \cap QuestionIds}

(* C17: a Submit step persists one detailed result per graded answer; its
   response carries no detailed_results when the exam's
   show_result_immediately is false, and the persisted detailed_results when
   it is true. *)
DetailsShownOnlyWhenImmediate ==
    [][\A a \in DOMAIN attempts, s \in Submissions :
        (/\ attempts[a].status = "IN_PROGRESS"
         /\ attempts'[a].status = "EVALUATED"
         /\ SubmitExam(Owner(a), a, s)) =>
            LET exam == exams[attempts[a].exam_id]
                response == SubmitExamResponse(Owner(a), a, s)
            IN /\ Len(attempts'[a].detailed_results) = Cardinality(GradedAnswers(exam, s))
               /\ exam.show_result_immediately =>
                      /\ response.has_details
                      /\ response.detailed_results = attempts'[a].detailed_results
               /\ ~exam.show_result_immediately => ~response.has_details]_vars

(* An evaluated attempt holding detailed results, on an exam that does not
   show results immediately *)
DetailsPersistedNotShown ==
    \E a \in DOMAIN attempts :
        /\ Evaluated(a)
        /\ attempts[a].detailed_results # <<>>
        /\ ~exams[attempts[a].exam_id].show_result_immediately

(* The start_exam calls that inserted an attempt *)
Inserted == {r \in DOMAIN requests : ~requests[r].found /\ requests[r].attempt_id # 0}

(* C18: with start_exam run as lookup and insert, two IN_PROGRESS attempts of
   one (user, exam) pair arise exactly from overlap: the call that inserted
   the later one did its lookup before the earlier one was inserted, and an
   insert adds an IN_PROGRESS attempt whatever the store holds by then. *)
DuplicatesFromOverlappingStarts ==
    /\ [](\A r1, r2 \in Inserted :
            (/\ requests[r1].attempt_id < requests[r2].attempt_id
             /\ requests[r1].user = requests[r2].user
             /\ requests[r1].exam_id = requests[r2].exam_id
             /\ attempts[requests[r1].attempt_id].status = "IN_PROGRESS"
             /\ attempts[requests[r2].attempt_id].status = "IN_PROGRESS") =>
                requests[r2].looked_at < requests[r1].attempt_id)
    /\ [][\A r \in DOMAIN requests :
            StartInsert(r) =>
                /\ Len(attempts') = Len(attempts) + 1
                /\ attempts'[Len(attempts')].status = "IN_PROGRESS"
                /\ attempts'[Len(attempts')].user_id = requests[r].user
                /\ attempts'[Len(attempts')].exam_id = requests[r].exam_id
                /\ \A a \in DOMAIN attempts : attempts'[a] = attempts[a]]_vars

(* Two calls of one user for one exam that both looked before either
   inserted, and the two IN_PROGRESS attempts they left *)
TwoInProgressAfterRace ==
    \E r1, r2 \in Inserted :
        /\ r1 # r2
        /\ requests[r1].user = requests[r2].user
        /\ requests[r1].exam_id = requests[r2].exam_id
        /\ requests[r1].looked_at = 0
        /\ requests[r2].looked_at = 0
        /\ Cardinality(InProgressOf(requests[r1].user, requests[r1].exam_id)) = 2

(* C19: a Submit whose xp increment fails still leaves the attempt EVALUATED
   with its result, and still answers with the result. *)
XpFailureStillAnswers ==
    [][\A a \in DOMAIN attempts, s \in Submissions :
        (/\ attempts[a].status = "IN_PROGRESS"
         /\ SubmitExamXpFails(Owner(a), a, s)) =>
            /\ attempts'[a].status = "EVALUATED"
            /\ attempts'[a].score = SubmitExamResponse(Owner(a), a, s).score
            /\ SubmitExamXpFailsResponse(Owner(a), a, s).code = 200]_vars

(* C20: every attempt is on an exam of its user's tenant. *)
AttemptsStayInTenant ==
    \A a \in DOMAIN attempts :
        TenantOf[attempts[a].user_id] = exams[attempts[a].exam_id].tenant_id

(* C21: every guarded route answers 403 to a caller whose role is not in its
   allowed list, a STUDENT listing users or questions in particular, and such
   a call changes no stored state. *)
RolesGuardRoutes ==
    /\ [](/\ \A route \in GuardedRoutes :
                \A role \in UserRole \ AllowedRoles[route] :
                    RoleCheckerResponse(route, role).code = 403
          /\ RoleCheckerResponse("get_users", "STUDENT").code = 403
          /\ RoleCheckerResponse("get_questions", "STUDENT").code = 403)
    /\ [][/\ \A role \in UserRole \ AllowedRoles.create_exam :
                \A q \in QidChoices, c \in ExamConfigs :
                    CreateExamAs(role, q, c) => UNCHANGED vars
          /\ \A role \in UserRole \ AllowedRoles.update_exam :
                \A e \in ExamIds, u \in Patches :
                    UpdateExamAs(role, e, u) => UNCHANGED vars
          /\ \A role \in UserRole \ AllowedRoles.publish_exam :
                \A e \in ExamIds : PublishExamAs(role, e) => UNCHANGED vars
          /\ \A role \in UserRole \ AllowedRoles.archive_exam :
                \A e \in ExamIds : ArchiveExamAs(role, e) => UNCHANGED vars
          /\ \A role \in UserRole, route \in GuardedRoutes :
                (role \notin AllowedRoles[route] /\ ListAs(route, role)) =>
                    UNCHANGED vars]_vars

(* An exam a teacher created and a manager published, where the teacher's
   publish and the student's update are answered 403 *)
TeacherCannotPublish ==
    \E e \in DOMAIN exams :
        /\ e > 1
        /\ exams[e].status = "PUBLISHED"
        /\ RoleCheckerResponse("create_exam", "TEACHER").code = 200
        /\ RoleCheckerResponse("publish_exam", "TEACHER").code = 403
        /\ RoleCheckerResponse("update_exam", "STUDENT").code = 403

(* The sum of the marks of the stored questions a list of ids references *)
MarksReferenced(ids) ==
    SumOver(ToSet(ids) \cap QuestionIds, [q \in QuestionIds |-> Questions[q].marks])

(* C22: after an UpdateExam whose patch carries question_ids, in place or by
   a fork, the record that carries the new question_ids has total_marks equal
   to the sum of the marks of the questions it references. *)
TotalMarksFollowQuestions ==
    [][\A e \in DOMAIN exams, p \in Patches :
        (/\ "question_ids" \in DOMAIN p
         /\ UpdateExam(e, p)) =>
            LET written == exams'[UpdateExamResponse(e, p).id]
            IN /\ written.question_ids = p.question_ids
               /\ written.total_marks = MarksReferenced(written.question_ids)]_vars

(* The marks one answer earns according to C23 *)
MarksFor(exam, answer) ==
    LET question == Questions[answer.question_id]
    IN IF IsCorrect(question, answer.answer) THEN question.marks * Scale
       ELSE IF exam.negative_marking THEN -question.negative_marks
       ELSE 0

(* The submitted answers whose question is in the exam's set, in order *)
AnswersInExam(exam, s) ==
    LET InExam(answer) == answer.question_id \in ToSet(exam.question_ids) \cap QuestionIds
    IN SelectSeq(s, InExam)

(* C23: for every exam and submission, the raw score is the sum of
   marks_obtained over the detailed results, which hold one entry for each
   submitted answer whose question is in the exam's set and none for the
   others: +marks if correct, -negative_marks if incorrect under negative
   marking, 0 otherwise. *)
RawScoreSumsEntries ==
    \A e \in DOMAIN exams, s \in Submissions :
        LET evaluation == Evaluate(exams[e], s)
            results == evaluation.set.detailed_results
            graded == AnswersInExam(exams[e], s)
        IN /\ evaluation.score = SumMarksObtained(results)
           /\ Len(results) = Len(graded)
           /\ \A i \in DOMAIN results :
                  /\ results[i].question_id = graded[i].question_id
                  /\ results[i].marks_obtained = MarksFor(exams[e], graded[i])

(* An evaluated attempt whose submission named a question outside the exam
   beside one that was penalised, and an exam without negative marking that
   a wrong answer could be submitted to *)
OutsideAnswerLeftNoEntry ==
    /\ \E a \in DOMAIN attempts :
           /\ Evaluated(a)
           /\ Len(attempts[a].detailed_results) < Len(attempts[a].answers)
           /\ \E i \in DOMAIN attempts[a].detailed_results :
                  attempts[a].detailed_results[i].marks_obtained < 0
    /\ \E e \in DOMAIN exams :
           /\ ~exams[e].negative_marking
           /\ Evaluate(exams[e], <<W6>>).set.detailed_results # <<>>
           /\ Evaluate(exams[e], <<W6>>).score = 0

(* Answer payloads a caller may send: strings in other case or with blanks
   around them, lists in other order or with repeats *)
AnswerInputs ==
    { StrAns(<<"a">>), StrAns(<<"A">>), StrAns(<<" ", "a", " ">>), StrAns(<<"b">>),
      StrAns(<<"a", " ">>), StrAns(<<>>),
      StrAns(<<"F", "a", "l", "s", "e">>),
      StrAns(<<" ", "S", "P", "E", "A", "K", "I", "N", "G">>),
      StrAns(<<"s", "p", "e", "a", "k", " ", "i", "n", "g">>),
      ListAns(<<<<"a">>, <<"c">>, <<"d">>>>), ListAns(<<<<"d">>, <<"a">>, <<"c">>>>),
      ListAns(<<<<"a">>, <<"c">>, <<"d">>, <<"a">>>>), ListAns(<<<<"a">>, <<"c">>>>),
      ListAns(<<<<"A">>, <<"c">>, <<"d">>>>), ListAns(<<<<"a">>>>), ListAns(<<>>) }

(* The members of an answer: those of a list, or the scalar alone *)
Members(a) == IF a.kind = "list" THEN {a.val[i] : i \in 1..Len(a.val)} ELSE {a.val}

(* The text without the blanks before its first and after its last character
   that is not a blank *)
Trimmed(s) ==
    LET ink == {i \in 1..Len(s) : s[i] # " "}
    IN IF ink = {} THEN <<>>
       ELSE SubSeq(s, CHOOSE i \in ink : \A j \in ink : i <= j,
                      CHOOSE i \in ink : \A j \in ink : i >= j)

(* Equal character by character, up to the case of letters *)
EqualIgnoringCase(s, t) ==
    /\ Len(s) = Len(t)
    /\ \A i \in 1..Len(s) :
           \/ s[i] = t[i]
           \/ \E k \in DOMAIN UpperCase : {s[i], t[i]} = {UpperCase[k], LowerCase[k]}

(* Correctness according to C24 *)
JudgedCorrect(question, answer) ==
    IF question.type = "MCQ_MULTI"
    THEN /\ \A x \in Members(answer) : x \in Members(question.correct_answer)
         /\ \A x \in Members(question.correct_answer) : x \in Members(answer)
    ELSE EqualIgnoringCase(Trimmed(PyStr(answer)), Trimmed(PyStr(question.correct_answer)))

(* A multi-choice question whose canonical answer is a scalar *)
MultiWithScalarKey == [type |-> "MCQ_MULTI", correct_answer |-> StrAns(<<"a">>)]

(* C24: an answer is judged correct exactly when, for a multi-choice
   question, the submitted and canonical answers have the same members (a
   scalar being its own single member), whatever the order and the repeats;
   and for every other type, when they are equal as texts after trimming
   blanks and ignoring case.  It holds of every answer judged in an
   evaluation and of every payload a caller may send. *)
CorrectnessByType ==
    /\ \A q \in QuestionIds, a \in AnswerInputs :
           IsCorrect(Questions[q], a) = JudgedCorrect(Questions[q], a)
    /\ \A a \in AnswerInputs :
           IsCorrect(MultiWithScalarKey, a) = JudgedCorrect(MultiWithScalarKey, a)
    /\ IsCorrect(Questions.q3, ListAns(<<<<"a">>, <<"c">>, <<"d">>, <<"a">>>>))
    /\ IsCorrect(Questions.q3, ListAns(<<<<"d">>, <<"a">>, <<"c">>>>))
    /\ ~IsCorrect(Questions.q3, ListAns(<<<<"a">>, <<"c">>>>))
    /\ IsCorrect(MultiWithScalarKey, ListAns(<<<<"a">>>>))
    /\ IsCorrect(Questions.q4, StrAns(<<" ", "S", "P", "E", "A", "K", "I", "N", "G">>))
    /\ ~IsCorrect(Questions.q4, StrAns(<<"s", "p", "e", "a", "k", " ", "i", "n", "g">>))
    /\ ~IsCorrect(Questions.q1, ListAns(<<<<"a">>>>))
    /\ \A a \in DOMAIN attempts :
           Evaluated(a) =>
               \A i \in DOMAIN attempts[a].detailed_results :
                   LET entry == attempts[a].detailed_results[i]
                   IN entry.is_correct =
                          JudgedCorrect(Questions[entry.question_id], entry.your_answer)

(* An evaluated attempt with an answer judged correct though it differs from
   the canonical one in case or blanks, and one with a multi-choice answer
   judged incorrect *)
JudgedUpToCaseAndBlanks ==
    /\ \E a \in DOMAIN attempts :
           /\ Evaluated(a)
           /\ \E i \in DOMAIN attempts[a].detailed_results :
                  /\ attempts[a].detailed_results[i].is_correct
                  /\ attempts[a].detailed_results[i].your_answer #
                         attempts[a].detailed_results[i].correct_answer
    /\ \E a \in DOMAIN attempts :
           /\ Evaluated(a)
           /\ \E i \in DOMAIN attempts[a].detailed_results :
                  /\ ~attempts[a].detailed_results[i].is_correct
                  /\ attempts[a].detailed_results[i].your_answer.kind = "list"


(* C25: a resumed attempt's time_remaining_seconds is
   max(0, duration_minutes * 60 - elapsed), elapsed being all the seconds
   since started_at, also when more than 24 hours have passed; so it is 0
   from the end of the exam's duration on *)
ResumeTimeRemaining ==
    \A u \in Users : \A e \in DOMAIN exams :
        LET r == StartExamResponse(u, e) IN
        (r.code = 200 /\ r.resumed) =>
            r.time_remaining_seconds =
                Max(0, exams[e].duration_minutes * 60
                       - (now - attempts[r.attempt_id].started_at))

(* The submit_exam calls that have written their evaluation of an attempt *)
Evaluations(a) ==
    {c \in DOMAIN in_flight :
        in_flight[c].op = "submit" /\ in_flight[c].attempt_id = a /\ in_flight[c].done}

(* C26: each attempt is rewarded at most once, also when two submit calls
   for it interleave: its owner's xp is the sum, over the owner's evaluated
   attempts, of the xp_earned of a single evaluation of each *)
RewardedOnce ==
    \A u \in Users :
        LET evaluated == {a \in DOMAIN attempts : Owner(a) = u /\ Evaluated(a)} IN
        \E single \in [evaluated -> DOMAIN in_flight] :
            /\ \A a \in evaluated : single[a] \in Evaluations(a)
            /\ xp[u] = SumOver(evaluated,
                               [a \in evaluated |-> in_flight[single[a]].xp_earned])

(* C27: once an attempt is EVALUATED, the answers stored on it are those a
   submit call evaluated, also when a sync call for it interleaves *)
StoredAnswersAreEvaluated ==
    \A a \in DOMAIN attempts :
        Evaluated(a) => \E c \in Evaluations(a) : attempts[a].answers = in_flight[c].answers

(* C28: the counts a Submit step stores add up to the number of the exam's
   question ids, and none of them is negative, whatever the submission. *)
CountsCoverExam ==
    [][\A a \in DOMAIN attempts, s \in Submissions :
        (/\ attempts[a].status = "IN_PROGRESS"
         /\ attempts'[a].status = "EVALUATED"
         /\ SubmitExam(Owner(a), a, s)) =>
            LET result == attempts'[a] IN
            /\ result.correct_count + result.incorrect_count + result.unanswered_count
                   = Len(exams[attempts[a].exam_id].question_ids)
            /\ result.correct_count >= 0
            /\ result.incorrect_count >= 0
            /\ result.unanswered_count >= 0]_vars

(* C29: on an exam whose total_marks is the sum of its questions' marks, the
   score a Submit step stores is at most total_marks and the percentage at
   most 100, whatever the submission. *)
ScoreWithinTotalMarks ==
    [][\A a \in DOMAIN attempts, s \in Submissions :
        (/\ attempts[a].status = "IN_PROGRESS"
         /\ attempts'[a].status = "EVALUATED"
         /\ SubmitExam(Owner(a), a, s)
         /\ exams[attempts[a].exam_id].total_marks =
                MarksReferenced(exams[attempts[a].exam_id].question_ids)) =>
            LET result == attempts'[a] IN
            /\ result.score <= exams[attempts[a].exam_id].total_marks * Scale
            /\ result.percentage.num <= 100 * result.percentage.den]_vars

(* C30: among the records descended from one exam through forks, no two
   carry the same version, whatever the updates. *)
VersionsDistinct ==
    \A i \in DOMAIN exams : \A j \in DOMAIN exams :
        i # j => exams[i].version # exams[j].version
====
